---------------------------- MODULE Spec2Model ----------------------------
(***************************************************************************)
(* beanfuzz: constraint-language front end (tokenizer, expression parser,  *)
(* specification parser), the constraint-respecting value generator and    *)
(* the differential run loop.                                              *)
(*                                                                         *)
(* Text is a sequence of one-character strings; a name is such a sequence. *)
(* An Option is a record with a boolean field `some`.                      *)
(***************************************************************************)
EXTENDS Integers, Sequences, FiniteSets

(***************************************************************************)
(* Bounds of the model.                                                    *)
(***************************************************************************)
\* longest token sequence handed to parse_expr_from_line in SpecExpr
MaxTokens == 6
\* longest file (in lines) handed to FuzzData::parse in SpecFile
MaxLines == 3
\* largest iteration count (--how-many-times) of a run
MaxTimes == 2
\* longest captured output (in characters) handed to the comparison in SpecCompare
MaxOut == 3
\* longest variable reference (in characters) enumerated in SpecRef
MaxRef == 5
\* largest number of units of a line of SpecUnits
MaxUnits == 3
\* largest number of variable groups of a chain of SpecChain
MaxGroups == 2

(***************************************************************************)
(* Text helpers: the std string operations the code calls.                 *)
(***************************************************************************)
Digits == {"0", "1", "2", "3", "4", "5", "6", "7", "8", "9"}

Letters == {"A", "B", "C", "D", "N", "X", "Y", "Z",
            "i", "n", "p", "u", "t", "o", "r", "d", "e"}

Whitespace == {" "}

None == [some |-> FALSE]

Some(v) == [some |-> TRUE, val |-> v]

IsPrefix(p, s) == Len(p) <= Len(s) /\ SubSeq(s, 1, Len(p)) = p

IsSuffix(p, s) == Len(p) <= Len(s) /\ SubSeq(s, Len(s) - Len(p) + 1, Len(s)) = p

Contains(s, c) == \E k \in 1..Len(s) : s[k] = c

\* str::split(c): the pieces between occurrences of c, empty pieces kept
RECURSIVE SplitAcc(_, _, _)
SplitAcc(s, c, cur) ==
    IF s = <<>> THEN <<cur>>
    ELSE IF Head(s) = c THEN <<cur>> \o SplitAcc(Tail(s), c, <<>>)
    ELSE SplitAcc(Tail(s), c, Append(cur, Head(s)))

Split(s, c) == SplitAcc(s, c, <<>>)

\* str::split_whitespace(): the maximal runs of non-whitespace characters
RECURSIVE SplitWsAcc(_, _)
SplitWsAcc(s, cur) ==
    IF s = <<>> THEN (IF cur = <<>> THEN <<>> ELSE <<cur>>)
    ELSE IF Head(s) \in Whitespace
         THEN (IF cur = <<>> THEN <<>> ELSE <<cur>>) \o SplitWsAcc(Tail(s), <<>>)
         ELSE SplitWsAcc(Tail(s), Append(cur, Head(s)))

SplitWhitespace(s) == SplitWsAcc(s, <<>>)

DigitVal(c) ==
    CASE c = "0" -> 0 [] c = "1" -> 1 [] c = "2" -> 2 [] c = "3" -> 3
      [] c = "4" -> 4 [] c = "5" -> 5 [] c = "6" -> 6 [] c = "7" -> 7
      [] c = "8" -> 8 [] c = "9" -> 9

RECURSIVE DigitsVal(_, _)
DigitsVal(s, acc) ==
    IF s = <<>> THEN acc ELSE DigitsVal(Tail(s), acc * 10 + DigitVal(Head(s)))

\* str::parse::<i64>(): optional sign, then one or more decimal digits.  The
\* numerals of the model have at most three digits, so the i64 range check of
\* parse (Err on overflow) never applies and is not modelled.
ParseI64(s) ==
    LET signed == s # <<>> /\ Head(s) \in {"+", "-"}
        body   == IF signed THEN Tail(s) ELSE s
        mag    == DigitsVal(body, 0)
        neg    == signed /\ Head(s) = "-"
    IN  IF body = <<>> \/ \E k \in 1..Len(body) : body[k] \notin Digits
        THEN None
        ELSE IF neg THEN Some(0 - mag) ELSE Some(mag)

(***************************************************************************)
(* Tokenizer (parser/tokenizer.rs).                                        *)
(***************************************************************************)
LESS_THAN == <<"<">>

LESS_THAN_OR_EQUAL_TO == <<"<", "=">>

LessThan == "LessThan"

LessThanOrEqualTo == "LessThanOrEqualTo"

LenVariable(name) == [kind |-> "Variable", name |-> name]

LenConstant(n) == [kind |-> "Constant", val |-> n]

Array(name, len) == [kind |-> "Array", name |-> name, len |-> len]

Variable(name) == [kind |-> "Variable", name |-> name]

Comparison(c) == [kind |-> "Comparison", comp |-> c]

VariableGroup(vs) == [kind |-> "VariableGroup", vars |-> vs]

NumValue(n) == [kind |-> "NumValue", num |-> n]

string_to_variable(string) ==
    IF IsSuffix(<<"]", "#">>, string)
    THEN LET new_string == SubSeq(string, 1, Len(string) - 2)
             split      == Split(new_string, "[")
         IN  IF Len(split) # 2 THEN None
             ELSE LET len == split[2]
                      parsed == ParseI64(len)
                      len_expr == IF parsed.some THEN LenConstant(parsed.val)
                                  ELSE LenVariable(len)
                  IN  Some(Array(split[1], len_expr))
    ELSE IF ~(Contains(string, "[") \/ Contains(string, "]") \/ Contains(string, " "))
    THEN Some(Variable(string))
    ELSE None

tokenize(item) ==
    IF item = LESS_THAN THEN Some(Comparison(LessThan))
    ELSE IF item = LESS_THAN_OR_EQUAL_TO THEN Some(Comparison(LessThanOrEqualTo))
    ELSE IF item = <<>> THEN None
    ELSE LET first == Head(item) IN
         IF first \in Digits
         THEN LET result == ParseI64(item)
              IN  IF result.some THEN Some(NumValue(result.val)) ELSE None
         ELSE IF first \in Letters
         THEN IF Contains(item, ",")
              THEN LET parts == Split(item, ",")
                       vs    == [k \in 1..Len(parts) |-> string_to_variable(parts[k])]
                   IN  IF \E k \in 1..Len(parts) : ~vs[k].some THEN None
                       ELSE Some(VariableGroup([k \in 1..Len(parts) |-> vs[k].val]))
              ELSE LET v == string_to_variable(item)
                   IN  IF v.some THEN Some(VariableGroup(<<v.val>>)) ELSE None
         ELSE None

\* mutant of tokenize_expr_line: a malformed unit is dropped, the rest is returned
tokenize_expr_line_SkipMalformed(line) ==
    LET tokens_val == SelectSeq(SplitWhitespace(line), LAMBDA item : tokenize(item).some)
    IN  Some([k \in 1..Len(tokens_val) |-> tokenize(tokens_val[k]).val])

tokenize_expr_line(line) ==
    LET tokens_val == SplitWhitespace(line)
        toks       == [k \in 1..Len(tokens_val) |-> tokenize(tokens_val[k])]
    IN  IF \E k \in 1..Len(tokens_val) : ~toks[k].some THEN None
        ELSE Some([k \in 1..Len(tokens_val) |-> toks[k].val])

(***************************************************************************)
(* Expression parser (parser/parser.rs).                                   *)
(***************************************************************************)
\* FuzzExpr::default() with repr set
NewFuzzExpr(repr) ==
    [const_min |-> 0, const_max |-> 0, vars |-> <<>>, comparisons |-> <<>>,
     contains_array |-> FALSE, less_than_count |-> 0, repr |-> repr]

expr_var_arr_contains_arr_var(slice) ==
    \E k \in 1..Len(slice) : slice[k].kind = "Array"

count_less_thans(slice) ==
    Cardinality({k \in 1..Len(slice) : slice[k] = LessThan})

\* mutant of PushGroup: contains_array is set from the group just pushed alone
PushGroup_LastGroupFlag(fuzz_expr, group) ==
    [fuzz_expr EXCEPT
        !.contains_array = expr_var_arr_contains_arr_var(group),
        !.vars = Append(@, group)]

\* if !fuzz_expr.contains_array && contains_arr(vars) { contains_array = true };
\* fuzz_expr.vars.push(vars)
PushGroup(fuzz_expr, group) ==
    [fuzz_expr EXCEPT
        !.contains_array = IF ~fuzz_expr.contains_array
                              /\ expr_var_arr_contains_arr_var(group)
                           THEN TRUE ELSE @,
        !.vars = Append(@, group)]

\* mutant of CloseChain: the span is not compared with less_than_count
CloseChain_NoSpanCheck(fuzz_expr, x) ==
    LET e1 == [fuzz_expr EXCEPT !.const_max = x,
                                !.less_than_count = count_less_thans(fuzz_expr.comparisons)]
    IN  IF x < e1.const_min THEN None ELSE Some(e1)

\* the checks made once the closing NumValue x is met
CloseChain(fuzz_expr, x) ==
    LET e1 == [fuzz_expr EXCEPT !.const_max = x,
                                !.less_than_count = count_less_thans(fuzz_expr.comparisons)]
        diff == e1.const_max - e1.const_min
        unsigned_abs == IF diff < 0 THEN 0 - diff ELSE diff
    IN  IF x < e1.const_min THEN None
        ELSE IF unsigned_abs < e1.less_than_count THEN None
        ELSE Some(e1)

\* the `while tokens.len() > 0` loop, two tokens per round
RECURSIVE ParseRest(_, _)
ParseRest(fuzz_expr, tokens) ==
    IF Len(tokens) = 0 THEN None
    ELSE IF tokens[1].kind # "Comparison" THEN None
    ELSE IF Len(tokens) < 2 THEN None
    ELSE LET e1 == [fuzz_expr EXCEPT !.comparisons = Append(@, tokens[1].comp)]
             second_token == tokens[2]
             rest == SubSeq(tokens, 3, Len(tokens))
         IN  IF second_token.kind = "VariableGroup"
             THEN ParseRest(PushGroup(e1, second_token.vars), rest)
             ELSE IF second_token.kind = "NumValue"
             THEN CloseChain(e1, second_token.num)
             ELSE None

parse_expr_from_line(repr, tokens) ==
    IF Len(tokens) < 5 THEN None
    ELSE IF tokens[1].kind # "NumValue" THEN None
    ELSE IF tokens[2].kind # "Comparison" THEN None
    ELSE IF tokens[3].kind # "VariableGroup" THEN None
    ELSE LET e0 == [NewFuzzExpr(repr) EXCEPT !.const_min = tokens[1].num,
                                              !.comparisons = <<tokens[2].comp>>]
         IN  ParseRest(PushGroup(e0, tokens[3].vars), SubSeq(tokens, 4, Len(tokens)))

(***************************************************************************)
(* Specification parser (FuzzData::parse) and the errors it returns.       *)
(***************************************************************************)
InvalidExpression(i, line) == [kind |-> "InvalidExpression", line_no |-> i, text |-> line]

InvalidSyntax(i, line) == [kind |-> "InvalidSyntax", line_no |-> i, text |-> line]

MultipleInputOrder == [kind |-> "MultipleInputOrder"]

NoInputOrder == [kind |-> "NoInputOrder"]

InvalidArraySize(count, expr) == [kind |-> "InvalidArraySize", count |-> count, text |-> expr]

UndeclaredVariable(name) == [kind |-> "UndeclaredVariable", name |-> name]

IOError == [kind |-> "IOError"]

NoOutput(input) == [kind |-> "NoOutput", input |-> input]

Err(e) == [ok |-> FALSE, err |-> e]

InputOrderPrefix == <<"i", "n", "p", "u", "t", " ", "o", "r", "d", "e", "r", ":">>

\* mutant of SortByContainsArray: the key is inverted, array expressions first
SortByContainsArray_ArraysFirst(exprs) ==
    SelectSeq(exprs, LAMBDA x : x.contains_array)
        \o SelectSeq(exprs, LAMBDA x : ~x.contains_array)

\* exprs.sort_by_key(|x| if x.contains_array {1} else {0}): a stable sort on a
\* two-valued key keeps the key-0 items, in order, then the key-1 items, in order
SortByContainsArray(exprs) ==
    SelectSeq(exprs, LAMBDA x : ~x.contains_array)
        \o SelectSeq(exprs, LAMBDA x : x.contains_array)

\* mutant of SetInputOrder: a later directive silently replaces the earlier one
SetInputOrder_Overwrite(n, line, input_order) ==
    LET tmp_input_order == Split(line, ":")
    IN  IF Len(tmp_input_order) < 2
        THEN Err(InvalidSyntax(n, line))
        ELSE [ok |-> TRUE, val |-> Some(SplitWhitespace(tmp_input_order[2]))]

\* the `input order:` block: the new input_order, or the error returned
SetInputOrder(n, line, input_order) ==
    IF ~input_order.some
    THEN LET tmp_input_order == Split(line, ":")
         IN  IF Len(tmp_input_order) < 2
             THEN Err(InvalidSyntax(n, line))
             ELSE [ok |-> TRUE, val |-> Some(SplitWhitespace(tmp_input_order[2]))]
    ELSE Err(MultipleInputOrder)

\* the expression block: the FuzzExpr to push, or the error returned
ExprLine(n, line) ==
    LET toks == tokenize_expr_line(line)
    IN  IF toks.some
        THEN LET expr == parse_expr_from_line(line, toks.val)
             IN  IF expr.some THEN [ok |-> TRUE, val |-> expr.val]
                 ELSE Err(InvalidSyntax(n, line))
        ELSE Err(InvalidExpression(n, line))

\* after the loop: the sort, and input_order.ok_or(NoInputOrder)
FinishParse(exprs, input_order) ==
    IF input_order.some
    THEN [ok |-> TRUE, exprs |-> SortByContainsArray(exprs),
          input_order |-> input_order.val]
    ELSE Err(NoInputOrder)

\* `for line in lines`, i being the number of lines already read
RECURSIVE ParseLines(_, _, _, _)
ParseLines(rest, i, exprs, input_order) ==
    IF rest = <<>> THEN FinishParse(exprs, input_order)
    ELSE LET line == Head(rest)
             n    == i + 1
         IN  IF IsPrefix(<<"#">>, line) \/ line = <<>>
             THEN ParseLines(Tail(rest), n, exprs, input_order)
             ELSE IF IsPrefix(InputOrderPrefix, line)
             THEN LET set == SetInputOrder(n, line, input_order)
                  IN  IF set.ok THEN ParseLines(Tail(rest), n, exprs, set.val)
                      ELSE set
             ELSE LET expr == ExprLine(n, line)
                  IN  IF expr.ok
                      THEN ParseLines(Tail(rest), n, Append(exprs, expr.val), input_order)
                      ELSE expr

parse(file) == ParseLines(file, 0, <<>>, None)

(***************************************************************************)
(* Generator and runner (exec.rs).                                         *)
(***************************************************************************)
MaxOf(a, b) == IF a >= b THEN a ELSE b

\* VarsData::set_var / set_arr: HashMap::insert
Insert(map, key, val) ==
    [k \in DOMAIN map \cup {key} |-> IF k = key THEN val ELSE map[k]]

\* recurse_set_variables: the lower bound handed to depth 0
FirstMin(expr) ==
    IF expr.comparisons[1] = LessThan THEN expr.const_min + 1 ELSE expr.const_min

\* mutant of GroupMax: no headroom is kept for the strict comparisons to come
GroupMax_NoHeadroom(expr, d) == expr.const_max

\* _recurse_set_variables: max = const_max - #(LessThan in comparisons[depth + 1..])
GroupMax(expr, d) ==
    expr.const_max
      - Cardinality({k \in (d + 2)..Len(expr.comparisons) : expr.comparisons[k] = LessThan})

\* mutant of NextMin: the bound is raised after a non-strict comparison too
NextMin_AlwaysStrict(expr, d, nmax) == nmax + 1

\* mutant of NextMin: a strict comparison does not raise the bound
NextMin_NeverStrict(expr, d, nmax) == nmax

\* _recurse_set_variables: next_min, from comparisons[depth + 1]
NextMin(expr, d, nmax) ==
    IF expr.comparisons[d + 2] = LessThan THEN nmax + 1 ELSE nmax

\* fill_array: count, from the LenExpr; None where expect() panics
ResolveCount(size, store) ==
    IF size.kind = "Variable"
    THEN IF size.name \in DOMAIN store THEN Some(store[size.name]) ELSE None
    ELSE Some(size.val)

\* mutant of InvalidCount: only negative counts are refused
InvalidCount_Negative(count) == count < 0

\* fill_array: `if count < 1`
InvalidCount(count) == count < 1

\* fill_array: the number of rounds of `for _ in 0..=count`
FillRounds(count) == count + 1

RECURSIVE SeqMax(_, _)
SeqMax(vec, acc) ==
    IF vec = <<>> THEN acc ELSE SeqMax(Tail(vec), MaxOf(acc, Head(vec)))

SeqValues(vec) == {vec[k] : k \in 1..Len(vec)}

\* i64::to_string
RECURSIVE NatToString(_)
NatToString(n) ==
    LET d == CHOOSE c \in Digits : DigitVal(c) = n % 10
    IN  IF n < 10 THEN <<d>> ELSE Append(NatToString(n \div 10), d)

to_string(n) == IF n < 0 THEN <<"-">> \o NatToString(0 - n) ELSE NatToString(n)

RECURSIVE Join(_, _)
Join(parts, sep) ==
    IF parts = <<>> THEN <<>>
    ELSE IF Len(parts) = 1 THEN parts[1]
    ELSE parts[1] \o <<sep>> \o Join(Tail(parts), sep)

\* mutant of BuildFrom: a name that is not stored is passed over
RECURSIVE BuildFrom_SkipUndeclared(_, _, _, _, _, _)
BuildFrom_SkipUndeclared(template, vs, as, sep, k, str) ==
    IF k > Len(template) THEN [ok |-> TRUE, val |-> str]
    ELSE LET name == template[k]
             tail == IF k < Len(template) THEN <<sep>> ELSE <<>>
         IN  IF name \in DOMAIN vs
             THEN BuildFrom_SkipUndeclared(template, vs, as, sep, k + 1,
                                           str \o to_string(vs[name]) \o tail)
             ELSE IF name \in DOMAIN as
             THEN BuildFrom_SkipUndeclared(template, vs, as, sep, k + 1,
                      str \o Join([j \in 1..Len(as[name]) |-> to_string(as[name][j])], sep)
                          \o tail)
             ELSE BuildFrom_SkipUndeclared(template, vs, as, sep, k + 1, str)

\* build_exec_input's loop from index k (1-based) on, str being what is built so far
RECURSIVE BuildFrom(_, _, _, _, _, _)
BuildFrom(template, vs, as, sep, k, str) ==
    IF k > Len(template) THEN [ok |-> TRUE, val |-> str]
    ELSE LET name == template[k]
             tail == IF k < Len(template) THEN <<sep>> ELSE <<>>
         IN  IF name \in DOMAIN vs
             THEN BuildFrom(template, vs, as, sep, k + 1,
                            str \o to_string(vs[name]) \o tail)
             ELSE IF name \in DOMAIN as
             THEN BuildFrom(template, vs, as, sep, k + 1,
                            str \o Join([j \in 1..Len(as[name]) |-> to_string(as[name][j])], sep)
                                \o tail)
             ELSE Err(UndeclaredVariable(name))

\* mutant of build_exec_input: the separator is pushed after the last name too
build_exec_input_TrailingSep(template, vs, as, sep) ==
    LET built == BuildFrom(template, vs, as, sep, 1, <<>>)
    IN  IF built.ok THEN [ok |-> TRUE, val |-> Append(built.val, sep)] ELSE built

\* build_exec_input, for a template that is not empty
build_exec_input(template, vs, as, sep) == BuildFrom(template, vs, as, sep, 1, <<>>)

\* execute(path, input): what it can return.  pipe(), write_all and spawn may
\* each fail with an io::Error.  The Command is built with .stdin(read) alone,
\* so the child's stdout stays inherited from the harness: whatever the program
\* writes goes to the terminal, cmd.stdout is None and
\* ok_or(AppError::NoOutput(input)) is an Err.
execute(path, input) == {Err(IOError), Err(NoOutput(input))}

\* execute: the result is the one returned after a successful spawn().  The
\* io::Errors come from pipe(), write_all and spawn, before any child exists.
Spawned(returned) == returned.ok \/ returned.err.kind = "NoOutput"

\* mutant of OutputsAgree: the token sequences are compared pairwise as far as
\* the shorter one goes (zip), so a proper prefix passes
OutputsAgree_Zip(o1, o2, sep) ==
    LET a == Split(o1, sep)
        b == Split(o2, sep)
    IN  \A k \in 1..(IF Len(a) <= Len(b) THEN Len(a) ELSE Len(b)) : a[k] = b[k]

\* run_once: output_1.split(sep).eq(output_2.split(sep))
OutputsAgree(o1, o2, sep) == Split(o1, sep) = Split(o2, sep)

(***************************************************************************)
(* The constraint files of the runs that Spec explores.                     *)
(***************************************************************************)
\* 1 < A < B <= 10 / input order: A B
R_Chain ==
    <<<<"1", " ", "<", " ", "A", " ", "<", " ", "B", " ", "<", "=", " ", "1", "0">>,
      <<"i", "n", "p", "u", "t", " ", "o", "r", "d", "e", "r", ":", " ", "A", " ", "B">>>>

\* input order: A / 1 < A[2]# < 5
R_ConstArray ==
    <<<<"i", "n", "p", "u", "t", " ", "o", "r", "d", "e", "r", ":", " ", "A">>,
      <<"1", " ", "<", " ", "A", "[", "2", "]", "#", " ", "<", " ", "5">>>>

\* 1 <= A[N]# <= 2 / 0 <= N <= 2 / input order: N A
R_VarArray ==
    <<<<"1", " ", "<", "=", " ", "A", "[", "N", "]", "#", " ", "<", "=", " ", "2">>,
      <<"0", " ", "<", "=", " ", "N", " ", "<", "=", " ", "2">>,
      <<"i", "n", "p", "u", "t", " ", "o", "r", "d", "e", "r", ":", " ", "N", " ", "A">>>>

\* 0 <= A[N]# <= N <= 1 / input order: N A
R_Forward ==
    <<<<"0", " ", "<", "=", " ", "A", "[", "N", "]", "#", " ", "<", "=", " ", "N", " ", "<", "=", " ", "1">>,
      <<"i", "n", "p", "u", "t", " ", "o", "r", "d", "e", "r", ":", " ", "N", " ", "A">>>>

\* 0 <= X,Y < B[1]# <= 2 / input order: B X Y
R_Group ==
    <<<<"0", " ", "<", "=", " ", "X", ",", "Y", " ", "<", " ", "B", "[", "1", "]", "#", " ", "<", "=", " ", "2">>,
      <<"i", "n", "p", "u", "t", " ", "o", "r", "d", "e", "r", ":", " ", "B", " ", "X", " ", "Y">>>>

\* 1 <= A[0]# <= X <= 2 / input order: A
R_ZeroLen ==
    <<<<"1", " ", "<", "=", " ", "A", "[", "0", "]", "#", " ", "<", "=", " ", "X", " ", "<", "=", " ", "2">>,
      <<"i", "n", "p", "u", "t", " ", "o", "r", "d", "e", "r", ":", " ", "A">>>>

\* 0 <= X <= A[-1]# <= 2 / input order: X
R_NegLen ==
    <<<<"0", " ", "<", "=", " ", "X", " ", "<", "=", " ", "A", "[", "-", "1", "]", "#", " ", "<", "=", " ", "2">>,
      <<"i", "n", "p", "u", "t", " ", "o", "r", "d", "e", "r", ":", " ", "X">>>>

\* 0 <= A <= 1 / input order: A C
R_Undeclared ==
    <<<<"0", " ", "<", "=", " ", "A", " ", "<", "=", " ", "1">>,
      <<"i", "n", "p", "u", "t", " ", "o", "r", "d", "e", "r", ":", " ", "A", " ", "C">>>>

\* 0 <= A <= 1 / input order:
R_NoOrder ==
    <<<<"0", " ", "<", "=", " ", "A", " ", "<", "=", " ", "1">>,
      <<"i", "n", "p", "u", "t", " ", "o", "r", "d", "e", "r", ":">>>>

\* # three groups / (blank) / 0 <= X < Y <= Z < 3 / input order: X Y Z
R_Three ==
    <<<<"#", " ", "t", "h", "r", "e", "e", " ", "g", "r", "o", "u", "p", "s">>,
      <<>>,
      <<"0", " ", "<", "=", " ", "X", " ", "<", " ", "Y", " ", "<", "=", " ", "Z", " ", "<", " ", "3">>,
      <<"i", "n", "p", "u", "t", " ", "o", "r", "d", "e", "r", ":", " ", "X", " ", "Y", " ", "Z">>>>

\* 0 < A < 1 / input order: A
R_Infeasible ==
    <<<<"0", " ", "<", " ", "A", " ", "<", " ", "1">>,
      <<"i", "n", "p", "u", "t", " ", "o", "r", "d", "e", "r", ":", " ", "A">>>>

RunFiles == {R_Chain, R_ConstArray, R_VarArray, R_Forward, R_Group, R_ZeroLen, R_NegLen, R_Undeclared, R_NoOrder, R_Three, R_Infeasible}

(***************************************************************************)
(* Inputs of SpecExpr (one expression line) and SpecFile (a whole file).   *)
(***************************************************************************)
BoundedSeq(S, n) == UNION {[1..k -> S] : k \in 0..n}

\* the whitespace-separated units a line of SpecExpr is made of
UnitPool == {<<"0">>, <<"1">>, <<"<">>, <<"<", "=">>, <<"A">>,
             <<"B", "[", "2", "]", "#">>}

\* the lines a file of SpecFile is made of
L_Comment == <<"#", " ", "c">>

L_Blank == <<>>

L_Order == <<"i", "n", "p", "u", "t", " ", "o", "r", "d", "e", "r", ":", " ", "A">>

L_OrderEmpty == <<"i", "n", "p", "u", "t", " ", "o", "r", "d", "e", "r", ":">>

L_Scalar == <<"0", " ", "<", "=", " ", "A", " ", "<", "=", " ", "1">>

L_Array == <<"0", " ", "<", "=", " ", "B", "[", "1", "]", "#", " ", "<", "=", " ", "1">>

L_Array2 == <<"0", " ", "<", "=", " ", "B", "[", "2", "]", "#", " ", "<", "=", " ", "1">>

L_NoToken == <<"(">>

L_Inverted == <<"1", " ", "<", "=", " ", "A", " ", "<", "=", " ", "0">>

L_Trailing == <<"0", " ", "<", "=", " ", "A", " ", "<", "=", " ", "1", " ", "1">>

LinePool == {L_Comment, L_Blank, L_Order, L_OrderEmpty, L_Scalar, L_Array, L_Array2,
             L_NoToken, L_Inverted, L_Trailing}

\* the programs under test, by what each writes to its stdout for a given stdin
Programs == {"echo", "reverse"}

\* the units a line of SpecUnits is made of, joined by single spaces: the empty
\* unit (so that spaces come in runs and at the ends), 0, <, <=, A,B, B[2]#,
\* and the malformed 1A, (, A[1], !=
LineUnits == {<<>>, <<"0">>, <<"<">>, <<"<", "=">>, <<"A", ",", "B">>,
              <<"B", "[", "2", "]", "#">>,
              <<"1", "A">>, <<"(">>, <<"A", "[", "1", "]">>, <<"!", "=">>}

\* the parts a chain of SpecChain is made of: const_min, const_max, the
\* comparisons, and the groups A / B[2]# / C,D / X,B[N]#
ChainMins == {<<"0">>, <<"1">>}

ChainMaxs == {<<"0">>, <<"2">>, <<"3">>}

ChainComparisons == {LESS_THAN, LESS_THAN_OR_EQUAL_TO}

ChainGroups == {<<"A">>, <<"B", "[", "2", "]", "#">>, <<"C", ",", "D">>,
                <<"X", ",", "B", "[", "N", "]", "#">>}

\* min c1 g1 c2 g2 ... c(n+1) max
ChainUnits(min, groups, comps, max) ==
    [k \in 1..(2 * Len(groups) + 3) |->
        IF k = 1 THEN min
        ELSE IF k = 2 * Len(groups) + 3 THEN max
        ELSE IF k % 2 = 0 THEN comps[k \div 2]
        ELSE groups[(k - 1) \div 2]]

\* the characters a variable reference of SpecRef is made of, and four longer
\* references: A[B]C]#, A[]#, A[1], A[]B
RefChars == {"A", "1", "[", "]", "#"}

RefExamples == {<<"A", "[", "B", "]", "C", "]", "#">>, <<"A", "[", "]", "#">>,
                <<"A", "[", "1", "]">>, <<"A", "[", "]", "B">>}

\* the line a reference of SpecRef stands in: 0 <= X,<reference> <= 1
RefLinePrefix == <<"0", " ", "<", "=", " ", "X", ",">>

RefLineSuffix == <<" ", "<", "=", " ", "1">>

\* the characters an output of SpecCompare is made of
OutChars == {"1", "2", " "}

\* -s and -o defaults (cli.rs)
input_separator == " "

output_separator == " "

VARIABLES
    lines,             \* the lines of the constraint file
    tokens,            \* FuzzData::parse, one line: tokenize_expr_line's result
    parsed_expr,       \* FuzzData::parse, one line: parse_expr_from_line's result
    data,              \* FuzzData::parse's result
    how_many_times,    \* CLIArgs.how_many_times
    executable_1,      \* Runner.executable_1
    executable_2,      \* Runner.executable_2
    pc,                \* where the control thread is
    i,                 \* main's loop index
    e,                 \* run_once: index of the expression being generated
    depth,             \* _recurse_set_variables: depth
    run_min,           \* _recurse_set_variables: run_min
    item,              \* _recurse_set_variables: index in expr.vars[depth] (1-based)
    n_max,             \* _recurse_set_variables: n_max
    variables,         \* VarsData.variables of Runner.variables_store
    arrays,            \* VarsData.arrays of Runner.variables_store
    written,           \* per group of the current expression: range used, values drawn
    stdin,             \* run_once: the built input
    output_1,          \* run_once: output of executable_1
    output_2,          \* run_once: output of executable_2
    result,            \* what the last run_once returned
    successful_tests,  \* AppResultData.successful_tests
    failed_tests,      \* AppResultData.failed_tests
    error_tests,       \* AppResultData.error_tests
    children           \* number of child processes spawned by execute and still running

vars == <<lines, tokens, parsed_expr, data, how_many_times, executable_1, executable_2, pc, i, e, depth,
          run_min, item, n_max, variables, arrays, written, stdin, output_1,
          output_2, result, successful_tests, failed_tests, error_tests, children>>

gen_vars == <<e, depth, run_min, item, n_max, written>>

io_vars == <<stdin, output_1, output_2>>

counters == <<successful_tests, failed_tests, error_tests>>

config == <<lines, how_many_times, executable_1, executable_2>>

line_vars == <<tokens, parsed_expr>>

NoData == [ok |-> FALSE, err |-> [kind |-> "NotParsed"]]

NoResult == [ok |-> FALSE, err |-> [kind |-> "None"]]

\* Runner::new and AppResultData::new: empty store, zero counters
InitRun ==
    /\ tokens = None /\ parsed_expr = None
    /\ data = NoData
    /\ pc = "parse"
    /\ i = 0
    /\ e = 0 /\ depth = 0 /\ run_min = 0 /\ item = 0 /\ n_max = 0
    /\ variables = <<>> /\ arrays = <<>>
    /\ written = <<>>
    /\ stdin = <<>> /\ output_1 = <<>> /\ output_2 = <<>>
    /\ result = NoResult
    /\ successful_tests = 0 /\ failed_tests = 0 /\ error_tests = 0
    /\ children = 0

Init ==
    /\ lines \in RunFiles
    /\ how_many_times \in 1..MaxTimes
    /\ executable_1 \in Programs
    /\ executable_2 \in Programs
    /\ InitRun

\* get_fuzz_data: FuzzData::parse on the file's lines; an Err ends main
Parse ==
    /\ UNCHANGED children
    /\ pc = "parse"
    /\ data' = parse(lines)
    /\ pc' = IF data'.ok THEN "loop" ELSE "abort"
    /\ UNCHANGED <<config, line_vars, i, gen_vars, variables, arrays, io_vars, result, counters>>

CurExpr == data.exprs[e]

CurGroup == CurExpr.vars[depth + 1]

CurItem == CurGroup[item]

\* run_once returns Err(err): main's Err arm counts it and goes on
IterationError(err) ==
    /\ result' = Err(err)
    /\ error_tests' = error_tests + 1
    /\ i' = i + 1
    /\ pc' = "loop"
    /\ e' = 0 /\ depth' = 0 /\ run_min' = 0 /\ item' = 0 /\ n_max' = 0
    /\ written' = <<>>
    /\ stdin' = <<>> /\ output_1' = <<>> /\ output_2' = <<>>
    /\ UNCHANGED <<config, line_vars, data, successful_tests, failed_tests>>

\* main: `for i in 0..how_many_times`, run_once begins
RunOnce ==
    /\ UNCHANGED children
    /\ pc = "loop"
    /\ i < how_many_times
    /\ IF Len(data.exprs) = 0
       THEN /\ pc' = "build"
            /\ UNCHANGED gen_vars
       ELSE /\ pc' = "enter"
            /\ e' = 1
            /\ depth' = 0
            /\ run_min' = FirstMin(data.exprs[1])
            /\ item' = 0 /\ n_max' = 0 /\ written' = <<>>
    /\ UNCHANGED <<config, line_vars, data, i, variables, arrays, io_vars, result, counters>>

\* main: the loop is over
Finish ==
    /\ UNCHANGED children
    /\ pc = "loop"
    /\ i >= how_many_times
    /\ pc' = "done"
    /\ UNCHANGED <<config, line_vars, data, i, gen_vars, variables, arrays, io_vars, result, counters>>

\* _recurse_set_variables up to the loop over the group: the depth test, max, range
EnterGroup ==
    /\ UNCHANGED children
    /\ pc = "enter"
    /\ IF depth = Len(CurExpr.vars)
       THEN IF e < Len(data.exprs)
            THEN /\ e' = e + 1
                 /\ depth' = 0
                 /\ run_min' = FirstMin(data.exprs[e + 1])
                 /\ pc' = "enter"
                 /\ item' = 0 /\ n_max' = 0 /\ written' = <<>>
            ELSE /\ pc' = "build"
                 /\ e' = 0 /\ depth' = 0 /\ run_min' = 0 /\ item' = 0 /\ n_max' = 0
                 /\ written' = <<>>
       ELSE IF run_min > GroupMax(CurExpr, depth)
            THEN \* Uniform::from(run_min..=max) panics on an empty range
                 /\ pc' = "panic"
                 /\ UNCHANGED gen_vars
            ELSE /\ pc' = "items"
                 /\ item' = 1
                 /\ n_max' = 0
                 /\ written' = Append(written, [min |-> run_min,
                                                max |-> GroupMax(CurExpr, depth),
                                                vals |-> {}])
                 /\ UNCHANGED <<e, depth, run_min>>
    /\ UNCHANGED <<config, line_vars, data, i, variables, arrays, io_vars, result, counters>>

\* the loop body for an ExprVariable::Variable
SetVariable ==
    /\ UNCHANGED children
    /\ pc = "items"
    /\ item <= Len(CurGroup)
    /\ CurItem.kind = "Variable"
    /\ \E randomly_picked \in run_min..GroupMax(CurExpr, depth) :
         /\ n_max' = MaxOf(n_max, randomly_picked)
         /\ variables' = Insert(variables, CurItem.name, randomly_picked)
         /\ written' = [written EXCEPT ![Len(written)].vals = @ \cup {randomly_picked}]
    /\ item' = item + 1
    /\ UNCHANGED <<config, line_vars, data, pc, i, e, depth, run_min, arrays, io_vars, result, counters>>

\* the loop body for an ExprVariable::Array: fill_array.  Its own
\* Uniform::from(min..=max) is over the range EnterGroup already built.
FillArray ==
    /\ UNCHANGED children
    /\ pc = "items"
    /\ item <= Len(CurGroup)
    /\ CurItem.kind = "Array"
    /\ LET count == ResolveCount(CurItem.len, variables) IN
       IF ~count.some
       THEN \* expect("Failed to retrieve value from variable") panics
            /\ pc' = "panic"
            /\ UNCHANGED <<config, line_vars, data, i, gen_vars, variables, arrays, io_vars,
                           result, counters>>
       ELSE IF InvalidCount(count.val)
       THEN /\ IterationError(InvalidArraySize(count.val, CurExpr.repr))
            /\ UNCHANGED <<variables, arrays>>
       ELSE /\ \E new_vec \in [1..FillRounds(count.val) -> run_min..GroupMax(CurExpr, depth)] :
                 /\ arrays' = Insert(arrays, CurItem.name, new_vec)
                 /\ n_max' = MaxOf(n_max, SeqMax(new_vec, 0))
                 /\ written' = [written EXCEPT ![Len(written)].vals = @ \cup SeqValues(new_vec)]
            /\ item' = item + 1
            /\ UNCHANGED <<config, line_vars, data, pc, i, e, depth, run_min, variables, io_vars,
                           result, counters>>

\* after the loop: next_min and the recursive call
LeaveGroup ==
    /\ UNCHANGED children
    /\ pc = "items"
    /\ item > Len(CurGroup)
    /\ run_min' = NextMin(CurExpr, depth, n_max)
    /\ depth' = depth + 1
    /\ pc' = "enter"
    /\ UNCHANGED <<config, line_vars, data, i, e, item, n_max, written, variables, arrays, io_vars,
                   result, counters>>

\* run_once: build_exec_input
BuildInput ==
    /\ UNCHANGED children
    /\ pc = "build"
    /\ IF Len(data.input_order) = 0
       THEN \* template.len() - 1 underflows; template[0] is out of bounds
            /\ pc' = "panic"
            /\ UNCHANGED <<config, line_vars, data, i, gen_vars, io_vars, result, counters>>
       ELSE LET built == build_exec_input(data.input_order, variables, arrays,
                                          input_separator)
            IN  IF built.ok
                THEN /\ stdin' = built.val
                     /\ pc' = "execute_1"
                     /\ UNCHANGED <<config, line_vars, data, i, gen_vars, output_1, output_2,
                                    result, counters>>
                ELSE IterationError(built.err)
    /\ UNCHANGED <<variables, arrays>>

\* run_once: `let output_1 = execute(&self.executable_1, &stdin)?`.  An Ok
\* would go on to execute(&self.executable_2, &stdin); execute returns none.
\* execute reads nothing from the Child and never calls wait() on it: `cmd` is
\* dropped on return, which neither kills nor reaps the process, so a child
\* ends when its program ends.  Of the children of earlier calls, any number
\* (still_running) may not have ended by the time of this call.
Execute1 ==
    /\ pc = "execute_1"
    /\ \E returned \in execute(executable_1, stdin) :
         /\ \E still_running \in 0..children :
              children' = still_running + (IF Spawned(returned) THEN 1 ELSE 0)
         /\ IF returned.ok
            THEN /\ output_1' = returned.val
                 /\ pc' = "execute_2"
                 /\ UNCHANGED <<config, line_vars, data, i, gen_vars, stdin, output_2, result,
                                counters>>
            ELSE IterationError(returned.err)
    /\ UNCHANGED <<variables, arrays>>

\* run_once: the comparison of two captured outputs; main's Ok arm counts a
\* pass or a fail
Compare ==
    /\ UNCHANGED children
    /\ pc = "compare"
    /\ LET agree == OutputsAgree(output_1, output_2, output_separator) IN
       /\ result' = [ok |-> TRUE, val |-> agree]
       /\ successful_tests' = IF agree THEN successful_tests + 1 ELSE successful_tests
       /\ failed_tests' = IF agree THEN failed_tests ELSE failed_tests + 1
    /\ i' = i + 1
    /\ pc' = "loop"
    /\ UNCHANGED <<config, line_vars, data, gen_vars, variables, arrays, io_vars, error_tests>>

Next ==
    \/ Parse
    \/ RunOnce
    \/ Finish
    \/ EnterGroup
    \/ SetVariable
    \/ FillArray
    \/ LeaveGroup
    \/ BuildInput
    \/ Execute1

Spec == Init /\ [][Next]_vars

(***************************************************************************)
(* SpecFile: FuzzData::parse on every file of at most MaxLines lines of    *)
(* LinePool.                                                               *)
(***************************************************************************)
InitFile ==
    /\ lines \in BoundedSeq(LinePool, MaxLines)
    /\ how_many_times = 1
    /\ executable_1 = "echo"
    /\ executable_2 = "echo"
    /\ InitRun

NextFile == Parse

SpecFile == InitFile /\ [][NextFile]_vars

(***************************************************************************)
(* SpecExpr: what FuzzData::parse does with one expression line, for every *)
(* line of at most MaxTokens units of UnitPool.                            *)
(***************************************************************************)
InitExpr ==
    /\ \E units \in BoundedSeq(UnitPool, MaxTokens) : lines = <<Join(units, " ")>>
    /\ how_many_times = 1
    /\ executable_1 = "echo"
    /\ executable_2 = "echo"
    /\ InitRun

\* FuzzData::parse on the one-line file, with the tokens and the expression it
\* computes on the way
ParseLine ==
    /\ UNCHANGED children
    /\ pc = "parse"
    /\ tokens' = tokenize_expr_line(lines[1])
    /\ parsed_expr' = IF tokens'.some THEN parse_expr_from_line(lines[1], tokens'.val)
                      ELSE None
    /\ data' = parse(lines)
    /\ pc' = IF data'.ok THEN "loop" ELSE "abort"
    /\ UNCHANGED <<config, i, gen_vars, variables, arrays, io_vars, result, counters>>

NextExpr == ParseLine

SpecExpr == InitExpr /\ [][NextExpr]_vars

(***************************************************************************)
(* SpecRef: the tokenizer on the line `0 <= X,r <= 1`, for every variable  *)
(* reference r of at most MaxRef characters of RefChars and for the        *)
(* references of RefExamples.                                              *)
(***************************************************************************)
InitRef ==
    /\ \E ref \in BoundedSeq(RefChars, MaxRef) \cup RefExamples :
         lines = <<RefLinePrefix \o ref \o RefLineSuffix>>
    /\ how_many_times = 1
    /\ executable_1 = "echo"
    /\ executable_2 = "echo"
    /\ InitRun

SpecRef == InitRef /\ [][NextExpr]_vars

(***************************************************************************)
(* SpecUnits: the tokenizer on every line of at most MaxUnits units of     *)
(* LineUnits.                                                              *)
(***************************************************************************)
InitUnits ==
    /\ \E units \in BoundedSeq(LineUnits, MaxUnits) : lines = <<Join(units, " ")>>
    /\ how_many_times = 1
    /\ executable_1 = "echo"
    /\ executable_2 = "echo"
    /\ InitRun

SpecUnits == InitUnits /\ [][NextExpr]_vars

(***************************************************************************)
(* SpecChain: tokenizer and expression parser on every chain of one to     *)
(* MaxGroups groups of ChainGroups, with every choice of comparisons and   *)
(* of the two constants.                                                   *)
(***************************************************************************)
InitChain ==
    /\ \E min \in ChainMins, max \in ChainMaxs, n \in 1..MaxGroups :
         \E groups \in [1..n -> ChainGroups], comps \in [1..(n + 1) -> ChainComparisons] :
           lines = <<Join(ChainUnits(min, groups, comps, max), " ")>>
    /\ how_many_times = 1
    /\ executable_1 = "echo"
    /\ executable_2 = "echo"
    /\ InitRun

SpecChain == InitChain /\ [][NextExpr]_vars

(***************************************************************************)
(* SpecCompare: the comparison of run_once on every pair of outputs of at  *)
(* most MaxOut characters of OutChars.                                     *)
(***************************************************************************)
InitCompare ==
    /\ lines = <<>>
    /\ how_many_times = 1
    /\ executable_1 \in Programs
    /\ executable_2 \in Programs
    /\ tokens = None /\ parsed_expr = None
    /\ data = NoData
    /\ pc = "compare"
    /\ i = 0
    /\ e = 0 /\ depth = 0 /\ run_min = 0 /\ item = 0 /\ n_max = 0
    /\ variables = <<>> /\ arrays = <<>>
    /\ written = <<>>
    /\ stdin = <<>>
    /\ output_1 \in BoundedSeq(OutChars, MaxOut)
    /\ output_2 \in BoundedSeq(OutChars, MaxOut)
    /\ result = NoResult
    /\ successful_tests = 0 /\ failed_tests = 0 /\ error_tests = 0
    /\ children = 0

NextCompare == Compare

SpecCompare == InitCompare /\ [][NextCompare]_vars

(***************************************************************************)
(* Vocabulary of the properties: the chain grammar and the bounds of a     *)
(* group, stated without the parser's and the generator's own operators.   *)
(***************************************************************************)
\* the generation of expression e is under way / has returned Ok
InGen == pc \in {"enter", "items"}

GenDone == pc = "enter" /\ depth = Len(CurExpr.vars)

\* number of strict comparisons after the group at position d (1-based)
StrictAfter(expr, d) ==
    Cardinality({k \in (d + 1)..Len(expr.comparisons) : expr.comparisons[k] = LessThan})

LowerBound(expr) ==
    expr.const_min + (IF expr.comparisons[1] = LessThan THEN 1 ELSE 0)

InRange(expr, d, v) ==
    LowerBound(expr) <= v /\ v <= expr.const_max - StrictAfter(expr, d)

SetMax(S) == CHOOSE m \in S : \A x \in S : x <= m

SetMin(S) == CHOOSE m \in S : \A x \in S : m <= x

\* NumValue (Comparison VariableGroup)+ Comparison NumValue, and nothing else
ChainShape(toks) ==
    /\ Len(toks) >= 5
    /\ Len(toks) % 2 = 1
    /\ toks[1].kind = "NumValue"
    /\ toks[Len(toks)].kind = "NumValue"
    /\ \A k \in 2..(Len(toks) - 1) :
         IF k % 2 = 0 THEN toks[k].kind = "Comparison"
         ELSE toks[k].kind = "VariableGroup"

ChainStrict(toks) ==
    Cardinality({k \in 1..Len(toks) : toks[k] = Comparison(LessThan)})

ChainFeasible(toks) ==
    /\ toks[Len(toks)].num >= toks[1].num
    /\ toks[Len(toks)].num - toks[1].num >= ChainStrict(toks)

IsSkipped(line) == line = <<>> \/ Head(line) = "#"

IsDirective(line) == ~IsSkipped(line) /\ IsPrefix(InputOrderPrefix, line)

IsExprLine(line) == ~IsSkipped(line) /\ ~IsDirective(line)

Tokenizes(line) == tokenize_expr_line(line).some

LineValid(line) ==
    /\ Tokenizes(line)
    /\ ChainShape(tokenize_expr_line(line).val)
    /\ ChainFeasible(tokenize_expr_line(line).val)

Directives == {k \in 1..Len(lines) : IsDirective(lines[k])}

InvalidLines == {k \in 1..Len(lines) : IsExprLine(lines[k]) /\ ~LineValid(lines[k])}

SecondDirective == SetMin(Directives \ {SetMin(Directives)})

NameA == <<"A">>

NameB == <<"B">>

\* the expression lines of the file, by line number; the j-th of them
ExprLineNos == {k \in 1..Len(lines) : IsExprLine(lines[k])}

NthExprLine(j) ==
    lines[CHOOSE k \in ExprLineNos : Cardinality({m \in ExprLineNos : m < k}) = j - 1]

\* an accepted expression line refers to an array exactly when it has a bracket
HasArray(line) == Contains(line, "[")

\* the k-th least element of a set of integers
Kth(S, k) == CHOOSE x \in S : Cardinality({y \in S : y < x}) = k - 1

\* the tokens of a text for a separator: the stretches between one separator
\* (or the start) and the next (or the end)
Cuts(text, sep) == {k \in 1..Len(text) : text[k] = sep} \cup {0, Len(text) + 1}

TokenCount(text, sep) == Cardinality(Cuts(text, sep)) - 1

TokenAt(text, sep, k) ==
    SubSeq(text, Kth(Cuts(text, sep), k) + 1, Kth(Cuts(text, sep), k + 1) - 1)

\* same number of tokens, and equal tokens at every index
SameTokens(o1, o2, sep) ==
    /\ TokenCount(o1, sep) = TokenCount(o2, sep)
    /\ \A k \in 1..TokenCount(o1, sep) : TokenAt(o1, sep, k) = TokenAt(o2, sep, k)

\* the reference of a line of SpecRef
RefOf(line) == SubSeq(line, Len(RefLinePrefix) + 1, Len(line) - Len(RefLineSuffix))

\* a plain name: no bracket and no space
PlainName(ref) == \A k \in 1..Len(ref) : ref[k] \notin {"[", "]", " "}

\* name[len]#: one `[`, a length of one character or more, and one `]`, which
\* comes right before the closing `#`
ArrayShape(ref) ==
    \E open \in 1..Len(ref) :
      /\ ref[open] = "["
      /\ Len(ref) >= open + 3
      /\ ref[Len(ref) - 1] = "]"
      /\ ref[Len(ref)] = "#"
      /\ \A k \in 1..Len(ref) : (ref[k] = "[" => k = open) /\ (ref[k] = "]" => k = Len(ref) - 1)

\* the whitespace-separated units of a line: its tokens for the separator " "
\* that are not empty
UnitPlaces(line) == {k \in 1..TokenCount(line, " ") : TokenAt(line, " ", k) # <<>>}

UnitsOf(line) ==
    [j \in 1..Cardinality(UnitPlaces(line)) |-> TokenAt(line, " ", Kth(UnitPlaces(line), j))]

Resolves(name) == name \in DOMAIN variables \/ name \in DOMAIN arrays

\* the stored values the names stand for, one after the other
RECURSIVE StoredValues(_)
StoredValues(names) ==
    IF names = <<>> THEN <<>>
    ELSE (IF Head(names) \in DOMAIN variables THEN <<variables[Head(names)]>>
          ELSE arrays[Head(names)]) \o StoredValues(Tail(names))

Unresolved == {k \in 1..Len(data.input_order) : ~Resolves(data.input_order[k])}

Perms(n) == {p \in [1..n -> 1..n] : \A a, b \in 1..n : a # b => p[a] # p[b]}

(***************************************************************************)
(* C1.  Every value written for the group at position d, scalar or array   *)
(* element, lies in [L, U]: U is const_max minus the number of strict      *)
(* comparisons after position d, L is const_min, plus 1 if the first       *)
(* comparison is strict.  For `1 < A[2]# < 5` every element of A is        *)
(* strictly between 1 and 5; for `1 < A < B <= 10`, 1 < A < 10 and         *)
(* 2 < B <= 10 (the spec's examples, with the bound 100 and the length 10  *)
(* scaled down).                                                           *)
(***************************************************************************)
C1_ValuesWithinBounds ==
    InGen =>
      /\ \A d \in 1..Len(written) : \A v \in written[d].vals : InRange(CurExpr, d, v)
      /\ pc = "items" =>
           \A k \in 1..(item - 1) :
             IF CurGroup[k].kind = "Variable"
             THEN InRange(CurExpr, depth + 1, variables[CurGroup[k].name])
             ELSE \A j \in 1..Len(arrays[CurGroup[k].name]) :
                    InRange(CurExpr, depth + 1, arrays[CurGroup[k].name][j])
      /\ (GenDone /\ lines = R_ConstArray) =>
           \A j \in 1..Len(arrays[NameA]) : 1 < arrays[NameA][j] /\ arrays[NameA][j] < 5
      /\ (GenDone /\ lines = R_Chain) =>
           /\ 1 < variables[NameA] /\ variables[NameA] < 10
           /\ 2 < variables[NameB] /\ variables[NameB] <= 10

\* a finished chain of two groups or more whose first group drew its upper
\* bound, one or more strict comparisons coming after it
C1_Witness ==
    /\ GenDone
    /\ Len(written) >= 2
    /\ StrictAfter(CurExpr, 1) >= 1
    /\ (CurExpr.const_max - StrictAfter(CurExpr, 1)) \in written[1].vals

(***************************************************************************)
(* C2.  For consecutive groups g_d and g_(d+1), the lower bound used for   *)
(* g_(d+1) is the maximum value produced in g_d, plus 1 if the comparison  *)
(* between them is strict; so every value of g_(d+1) is >= that maximum,   *)
(* and > it when the comparison is strict.  For `1 < A < B <= 10`, A < B.  *)
(***************************************************************************)
C2_NextGroupAboveMax ==
    InGen =>
      /\ \A d \in 1..(Len(written) - 1) :
           LET m      == SetMax(written[d].vals)
               strict == CurExpr.comparisons[d + 1] = LessThan
           IN  /\ written[d + 1].min = (IF strict THEN m + 1 ELSE m)
               /\ \A v \in written[d + 1].vals : v >= m /\ (strict => v > m)
      /\ (GenDone /\ lines = R_Chain) => variables[NameA] < variables[NameB]

\* a finished chain whose second group follows a strict comparison and drew
\* the least value it may
C2_Witness ==
    /\ GenDone
    /\ Len(written) >= 2
    /\ CurExpr.comparisons[2] = LessThan
    /\ (SetMax(written[1].vals) + 1) \in written[2].vals

(***************************************************************************)
(* C3.  The sequence stored for an array reference name[len]# has exactly  *)
(* as many elements as its resolved length (the constant, or the current   *)
(* value of the scalar named by len).                                      *)
(***************************************************************************)
C3_ArrayHasResolvedLength ==
    (pc = "items" /\ item > 1 /\ CurGroup[item - 1].kind = "Array") =>
        Len(arrays[CurGroup[item - 1].name])
            = ResolveCount(CurGroup[item - 1].len, variables).val

(***************************************************************************)
(* C4.  When an array's resolved element count is less than 1, generation  *)
(* fails with InvalidArraySize carrying the count and the expression's     *)
(* verbatim text (a line of the file), the call stores no array and        *)
(* assigns no later variable, and the iteration ends as an error.          *)
(***************************************************************************)
C4_InvalidArraySize ==
    [][ ( /\ pc = "items"
          /\ item <= Len(CurGroup)
          /\ CurItem.kind = "Array"
          /\ ResolveCount(CurItem.len, variables).some
          /\ ResolveCount(CurItem.len, variables).val < 1 )
        => ( /\ result' = Err(InvalidArraySize(ResolveCount(CurItem.len, variables).val,
                                               CurExpr.repr))
             /\ \E k \in 1..Len(lines) : lines[k] = result'.err.text
             /\ arrays' = arrays
             /\ variables' = variables
             /\ pc' = "loop"
             /\ error_tests' = error_tests + 1 ) ]_vars

\* an iteration has ended with InvalidArraySize for a count of 0 read from a variable
C4_Witness ==
    /\ pc = "loop"
    /\ ~result.ok
    /\ result.err.kind = "InvalidArraySize"
    /\ result.err.count = 0
    /\ lines = R_VarArray

(***************************************************************************)
(* C5.  When an array's length variable is not yet assigned at the time    *)
(* the array is filled, generation returns a failure scoped to the         *)
(* iteration: it is counted as an error and the run goes on to the next    *)
(* iteration.                                                              *)
(***************************************************************************)
C5_UnassignedLengthIsIterationError ==
    [][ ( /\ pc = "items"
          /\ item <= Len(CurGroup)
          /\ CurItem.kind = "Array"
          /\ CurItem.len.kind = "Variable"
          /\ CurItem.len.name \notin DOMAIN variables )
        => ( /\ error_tests' = error_tests + 1
             /\ i' = i + 1
             /\ pc' = "loop" ) ]_vars

(***************************************************************************)
(* C6.  parse_expr_from_line fails on any token sequence that has further  *)
(* tokens after the NumValue taken as const_max: a returned expression of  *)
(* g groups has consumed all 2g + 3 tokens of the sequence.                *)
(***************************************************************************)
C6_ChainEndsAtConstMax ==
    (pc # "parse" /\ parsed_expr.some) =>
        Len(tokens.val) = 2 * Len(parsed_expr.val.vars) + 3

(***************************************************************************)
(* C7.  Every FuzzExpr returned by parse_expr_from_line has                *)
(* const_max >= const_min and const_max - const_min >= less_than_count; a  *)
(* chain violating either is rejected, and FuzzData::parse returns         *)
(* InvalidSyntax for that line.                                            *)
(***************************************************************************)
C7_FeasibleOrRejected ==
    pc # "parse" =>
      /\ parsed_expr.some =>
           /\ parsed_expr.val.const_max >= parsed_expr.val.const_min
           /\ parsed_expr.val.const_max - parsed_expr.val.const_min
                >= parsed_expr.val.less_than_count
      /\ (tokens.some /\ ChainShape(tokens.val) /\ ~ChainFeasible(tokens.val)) =>
           /\ ~parsed_expr.some
           /\ data = Err(InvalidSyntax(1, lines[1]))

\* a chain with const_max >= const_min but too few integers for its strict steps
C7_Witness ==
    /\ pc # "parse"
    /\ tokens.some
    /\ ChainShape(tokens.val)
    /\ tokens.val[Len(tokens.val)].num >= tokens.val[1].num
    /\ ~ChainFeasible(tokens.val)
    /\ data = Err(InvalidSyntax(1, lines[1]))

(***************************************************************************)
(* C8, as claimed.  parse succeeds only if exactly one line starts with    *)
(* `input order:`; a second such line makes parse fail with                *)
(* MultipleInputOrder; a file without one, whose other lines are all       *)
(* valid, fails with NoInputOrder.                                         *)
(***************************************************************************)
C8_Original ==
    pc # "parse" =>
      /\ data.ok => Cardinality(Directives) = 1
      /\ Cardinality(Directives) >= 2 => data = Err(MultipleInputOrder)
      /\ (Directives = {} /\ InvalidLines = {}) => data = Err(NoInputOrder)

(***************************************************************************)
(* C8, amended.  As claimed, except that a second `input order:` line      *)
(* makes parse fail with MultipleInputOrder when no invalid expression     *)
(* line comes before it (an earlier invalid line fails the parse with its  *)
(* own error first).                                                       *)
(***************************************************************************)
C8_OneInputOrder ==
    pc # "parse" =>
      /\ data.ok => Cardinality(Directives) = 1
      /\ Cardinality(Directives) >= 2 =>
           /\ ~data.ok
           /\ (\A k \in InvalidLines : k > SecondDirective) =>
                data = Err(MultipleInputOrder)
      /\ (Directives = {} /\ InvalidLines = {}) => data = Err(NoInputOrder)

\* a file of three lines: two directives and an expression line, none invalid
C8_Witness ==
    /\ pc # "parse"
    /\ Cardinality(Directives) = 2
    /\ InvalidLines = {}
    /\ \E k \in 1..Len(lines) : IsExprLine(lines[k])
    /\ data = Err(MultipleInputOrder)

(***************************************************************************)
(* C9.  An `input order:` directive with no variable name after the colon  *)
(* makes parse fail; parse never succeeds with an empty input_order.       *)
(***************************************************************************)
C9_NoEmptyInputOrder ==
    pc # "parse" =>
      /\ data.ok => Len(data.input_order) > 0
      /\ ( /\ Directives # {}
           /\ SplitWhitespace(SubSeq(lines[SetMin(Directives)],
                                     Len(InputOrderPrefix) + 1,
                                     Len(lines[SetMin(Directives)]))) = <<>> )
         => ~data.ok

(***************************************************************************)
(* C10.  For the first expression line that is invalid (no second          *)
(* directive coming before it), parse fails with an error carrying that    *)
(* line's text and its 1-based number among all lines: InvalidExpression   *)
(* when the line cannot be tokenized, InvalidSyntax when it tokenizes but  *)
(* is not a chain.                                                         *)
(***************************************************************************)
C10_FirstInvalidLineReported ==
    ( /\ pc # "parse"
      /\ InvalidLines # {}
      /\ Cardinality({k \in Directives : k < SetMin(InvalidLines)}) <= 1 )
    => LET k == SetMin(InvalidLines)
       IN  data = IF Tokenizes(lines[k])
                  THEN Err(InvalidSyntax(k, lines[k]))
                  ELSE Err(InvalidExpression(k, lines[k]))

(***************************************************************************)
(* C11.  In the expression list of a successful parse, every expression    *)
(* without an array precedes every expression with one, the expressions of *)
(* each class keep their order from the file, and the list is a            *)
(* rearrangement of the file's expression lines: none added, dropped or    *)
(* duplicated.                                                             *)
(***************************************************************************)
C11_StableArrayLast ==
    (pc # "parse" /\ data.ok) =>
      LET n == Cardinality(ExprLineNos) IN
      /\ Len(data.exprs) = n
      /\ \A a, b \in 1..n :
           (~data.exprs[a].contains_array /\ data.exprs[b].contains_array) => a < b
      /\ \E p \in Perms(n) :
           /\ \A j \in 1..n :
                /\ data.exprs[p[j]].repr = NthExprLine(j)
                /\ data.exprs[p[j]].contains_array = HasArray(NthExprLine(j))
           /\ \A j, k \in 1..n :
                (j < k /\ HasArray(NthExprLine(j)) = HasArray(NthExprLine(k)))
                    => p[j] < p[k]

\* a successful parse of a file whose array expression comes before a scalar one
C11_Witness ==
    /\ pc # "parse"
    /\ data.ok
    /\ Cardinality(ExprLineNos) = 2
    /\ HasArray(NthExprLine(1))
    /\ ~HasArray(NthExprLine(2))
    /\ data.exprs[1].repr = NthExprLine(2)
    /\ data.exprs[2].repr = NthExprLine(1)

C13_UndeclaredVariable ==
    [][ (pc = "build" /\ Unresolved # {})
        => ( /\ result' = Err(UndeclaredVariable(data.input_order[SetMin(Unresolved)]))
             /\ pc' = "loop"
             /\ i' = i + 1
             /\ error_tests' = error_tests + 1
             /\ stdin' = <<>> /\ output_1' = <<>> /\ output_2' = <<>> ) ]_vars

\* an iteration has ended with UndeclaredVariable for the second name of
\* input_order, the first one being stored
C13_Witness ==
    /\ pc = "loop"
    /\ ~result.ok
    /\ result.err.kind = "UndeclaredVariable"
    /\ Len(data.input_order) >= 2
    /\ result.err.name = data.input_order[2]
    /\ Resolves(data.input_order[1])

(***************************************************************************)
(* C14.  An iteration whose two executions both returned output is a pass  *)
(* exactly when the two outputs, each split on output_separator, give the  *)
(* same number of tokens with equal tokens at every index; otherwise it is *)
(* a fail.  A pass counts as a success, a fail as a failure.               *)
(***************************************************************************)
C14_PassIffSameTokens ==
    [][ pc = "compare"
        => LET same == SameTokens(output_1, output_2, output_separator) IN
           /\ result' = [ok |-> TRUE, val |-> same]
           /\ successful_tests' = successful_tests + (IF same THEN 1 ELSE 0)
           /\ failed_tests' = failed_tests + (IF same THEN 0 ELSE 1)
           /\ error_tests' = error_tests ]_vars

\* a fail on two outputs of which one is the other plus one more token
C14_Witness ==
    /\ pc = "loop"
    /\ result.ok /\ ~result.val
    /\ failed_tests = 1
    /\ TokenCount(output_1, output_separator) = 2
    /\ TokenCount(output_2, output_separator) = 1
    /\ TokenAt(output_1, output_separator, 1) = TokenAt(output_2, output_separator, 1)

(***************************************************************************)
(* C15.  Once the specification is parsed, the outer loop attempts all     *)
(* how_many_times iterations whatever the outcome of earlier ones: every   *)
(* iteration that has ended has incremented exactly one of the three       *)
(* counters, the run does not stop before the last iteration, and at the   *)
(* end successes + failures + errors = how_many_times.                     *)
(***************************************************************************)
C15_EveryIterationCounted ==
    data.ok =>
      /\ successful_tests + failed_tests + error_tests = i
      /\ pc \in {"done", "panic"} =>
           /\ i = how_many_times
           /\ successful_tests + failed_tests + error_tests = how_many_times

(***************************************************************************)
(* C16.  Each iteration starts generation with an empty variable store:    *)
(* nothing written during an earlier iteration is readable in it.          *)
(***************************************************************************)
C16_FreshStorePerIteration ==
    (pc = "loop" /\ i < how_many_times) => (variables = <<>> /\ arrays = <<>>)

(***************************************************************************)
(* C17.  With two executables that echo their stdin verbatim, a full run   *)
(* of how_many_times iterations over a successfully parsed constraint file *)
(* ends with how_many_times successes, 0 failures and 0 errors.            *)
(***************************************************************************)
C17_EchoRunAllSuccesses ==
    (pc = "done" /\ executable_1 = "echo" /\ executable_2 = "echo") =>
        /\ successful_tests = how_many_times
        /\ failed_tests = 0
        /\ error_tests = 0

(***************************************************************************)
(* C18.  A variable reference that is neither a plain name (no `[`, `]` or *)
(* space) nor of the array shape name[len]# with a single bracket pair is  *)
(* rejected by the tokenizer, and with it the group and the line it stands *)
(* in: `A[B]C]#`, `A[]#`, `A[1]` and `A[]B` all fail.                      *)
(***************************************************************************)
C18_MalformedReferenceRejected ==
    (pc # "parse" /\ ~PlainName(RefOf(lines[1])) /\ ~ArrayShape(RefOf(lines[1]))) =>
        /\ ~string_to_variable(RefOf(lines[1])).some
        /\ ~tokens.some
        /\ data = Err(InvalidExpression(1, lines[1]))

(***************************************************************************)
(* C19.  tokenize_expr_line returns a token sequence if and only if every  *)
(* whitespace-separated unit of the line is by itself a valid token; the   *)
(* sequence then has exactly one token per unit, in textual order; when a  *)
(* unit is malformed the result is the failure alone, with no tokens, and  *)
(* the caller reports the line as an invalid expression.                   *)
(***************************************************************************)
C19_AllUnitsOrNothing ==
    pc # "parse" =>
      LET units == UnitsOf(lines[1]) IN
      /\ tokens.some <=> \A k \in 1..Len(units) : tokenize(units[k]).some
      /\ tokens.some =>
           /\ Len(tokens.val) = Len(units)
           /\ \A k \in 1..Len(units) : tokens.val[k] = tokenize(units[k]).val
      /\ ~tokens.some =>
           /\ tokens = None
           /\ data = Err(InvalidExpression(1, lines[1]))

\* a line of three units of which only the last is malformed
C19_Witness ==
    /\ pc # "parse"
    /\ Len(UnitsOf(lines[1])) = 3
    /\ tokenize(UnitsOf(lines[1])[1]).some
    /\ tokenize(UnitsOf(lines[1])[2]).some
    /\ ~tokenize(UnitsOf(lines[1])[3]).some
    /\ tokens = None

(***************************************************************************)
(* C20.  Every FuzzExpr returned by parse_expr_from_line has one more      *)
(* comparison than it has groups, its groups and its comparisons are those *)
(* of the line in left-to-right order, less_than_count is the number of    *)
(* strict `<` among its comparisons, and contains_array is true exactly    *)
(* when one of its groups has an Array reference.                          *)
(***************************************************************************)
C20_ExprMirrorsChain ==
    (pc # "parse" /\ parsed_expr.some) =>
      LET fuzz_expr == parsed_expr.val
          n         == Len(parsed_expr.val.vars)
          units     == UnitsOf(lines[1])
      IN  /\ Len(fuzz_expr.comparisons) = n + 1
          /\ \A d \in 1..n : fuzz_expr.vars[d] = tokens.val[2 * d + 1].vars
          /\ \A d \in 1..(n + 1) :
               /\ fuzz_expr.comparisons[d] = tokens.val[2 * d].comp
               /\ fuzz_expr.comparisons[d] = LessThan <=> units[2 * d] = <<"<">>
          /\ fuzz_expr.less_than_count
               = Cardinality({d \in 1..(n + 1) : fuzz_expr.comparisons[d] = LessThan})
          /\ fuzz_expr.contains_array
               <=> \E d \in 1..n : \E k \in 1..Len(fuzz_expr.vars[d]) :
                     fuzz_expr.vars[d][k].kind = "Array"
          /\ fuzz_expr.contains_array
               <=> \E d \in 1..n : HasArray(units[2 * d + 1])

\* a returned chain of two groups, the first with an array and the second
\* without, of which only the middle comparison is strict
C20_Witness ==
    /\ pc # "parse"
    /\ parsed_expr.some
    /\ Len(parsed_expr.val.vars) = 2
    /\ parsed_expr.val.vars[1][1].kind = "Array"
    /\ \A k \in 1..Len(parsed_expr.val.vars[2]) : parsed_expr.val.vars[2][k].kind = "Variable"
    /\ parsed_expr.val.comparisons = <<LessThanOrEqualTo, LessThan, LessThanOrEqualTo>>
    /\ parsed_expr.val.less_than_count = 1
    /\ parsed_expr.val.contains_array

(***************************************************************************)
(* C21.  Within an iteration executable_1 is spawned and has ended, its    *)
(* output read to the end, before executable_2 is spawned; executable_2 is *)
(* not spawned when the execution of executable_1 failed; and at no point  *)
(* of a run are two child processes running at the same time.              *)
(***************************************************************************)
C21_OneChildAtATime ==
    /\ children <= 1
    /\ pc = "execute_2" => (children = 0 /\ result.ok)

(***************************************************************************)
(* C22.  For an expression with const_max - const_min >= less_than_count,  *)
(* the sampling range is not empty at any group position of any            *)
(* generation: the running lower bound carried into position d is never    *)
(* greater than the upper bound of that position (const_max minus the      *)
(* number of strict comparisons after it), whatever was drawn before, so   *)
(* the uniform range is built and the group's items are sampled.           *)
(***************************************************************************)
C22_RangeNeverEmpty ==
    [][ ( /\ pc = "enter"
          /\ depth < Len(CurExpr.vars)
          /\ CurExpr.const_max - CurExpr.const_min >= CurExpr.less_than_count )
        => ( /\ run_min <= CurExpr.const_max - StrictAfter(CurExpr, depth + 1)
             /\ pc' = "items" ) ]_vars

\* a later position whose range is a single value, the group before it having
\* drawn its own upper bound
C22_Witness ==
    /\ pc = "items"
    /\ Len(written) >= 2
    /\ written[Len(written)].min = written[Len(written)].max
    /\ written[Len(written) - 1].max \in written[Len(written) - 1].vals
=============================================================================
